---- MODULE Spec2Model ----
(***************************************************************************)
(* aumix: waveform generation (aumix/signal/simple_signal.py) and the      *)
(* .wav writer (aumix/io/wav.py).                                          *)
(*                                                                         *)
(* Numbers.  Sample values, durations and amplitude fractions are exact    *)
(* rationals <<n, d>> in lowest terms with d > 0; <<0, 0>> is NaN and      *)
(* <<1, 0>>, <<-1, 0>> are +inf and -inf (numpy's 0/0 and x/0).  The       *)
(* floating-point rounding of numpy is not modelled.                       *)
(* Strings are sequences of one-character strings, so that split("/"),     *)
(* "/".join and the f-string of write() are computed, not assumed.         *)
(***************************************************************************)
EXTENDS Integers, Sequences, FiniteSets, TLC

VARIABLES
    sig,      \* the Signal object of the program, or NoSignal
    dirs,     \* filesystem: the directories that exist (besides the root and the cwd)
    files,    \* filesystem: the paths of the files the codec has written
    pc,       \* pc[p]: position of caller p inside write()
    args,     \* args[p]: the arguments of p's current write() call
    loc,      \* loc[p]: the locals of p's current write() call
    err,      \* err[p]: the exception p's call ended with, or "none"
    mkdirs,   \* mkdirs[p]: the os.makedirs calls made by p's current call
    codec,    \* codec[p]: the wavfile.write calls made by p's current call
    snap,     \* snap[p]: the filesystem when p's current call started
    ncalls    \* number of write() calls started so far

vars == <<sig, dirs, files, pc, args, loc, err, mkdirs, codec, snap, ncalls>>

----------------------------------------------------------------------------
(* Bounds of the model *)

MaxDurNum == 4     \* durations are k/m seconds, k in 1..MaxDurNum
MaxDurDen == 2     \*                            m in 1..MaxDurDen
AmpDen    == 2     \* amp_perc ranges over k/AmpDen, k in 0..AmpDen
MaxCalls  == 2     \* write() calls per behaviour, one after the other
MaxConcCalls == 2  \* write() calls per behaviour of the two concurrent callers

Procs == {1, 2}
\* an optional value: None is <<>>, the value v is <<v>>
None == <<>>
Some(v) == <<v>>
\* no Signal has been constructed
NoSignal == [variant |-> "none"]

----------------------------------------------------------------------------
(* Exact rational arithmetic *)

Abs(n) == IF n < 0 THEN -n ELSE n
Sgn(n) == IF n < 0 THEN -1 ELSE IF n = 0 THEN 0 ELSE 1

RECURSIVE GCD(_, _)
GCD(a, b) == IF b = 0 THEN a ELSE GCD(b, a % b)

\* n/d as a value: lowest terms, positive denominator; x/0 is nan or +-inf.
Rat(n, d) ==
    IF d = 0 THEN <<Sgn(n), 0>>
    ELSE LET g == GCD(Abs(n), Abs(d))
         IN  <<Sgn(d) * (n \div g), Abs(d) \div g>>

RInt(n) == <<n, 1>>
RIsFinite(x) == x[2] # 0
RIsNaN(x) == x = <<0, 0>>
RMul(x, y) == Rat(x[1] * y[1], x[2] * y[2])
\* x / y; 0/0, inf/inf and nan operands give nan
RDiv(x, y) ==
    IF RIsNaN(x) \/ RIsNaN(y) THEN <<0, 0>>
    ELSE IF ~RIsFinite(y) THEN (IF RIsFinite(x) THEN <<0, 1>> ELSE <<0, 0>>)
    ELSE IF ~RIsFinite(x) THEN (IF y[1] = 0 THEN x ELSE <<x[1] * Sgn(y[1]), 0>>)
    ELSE Rat(x[1] * y[2], x[2] * y[1])
RAdd(x, y) == Rat(x[1] * y[2] + y[1] * x[2], x[2] * y[2])
RSub(x, y) == Rat(x[1] * y[2] - y[1] * x[2], x[2] * y[2])
\* x <= y on finite values and infinities (never called on nan)
RLeq(x, y) ==
    IF RIsFinite(x) /\ RIsFinite(y) THEN x[1] * y[2] <= y[1] * x[2]
    ELSE IF ~RIsFinite(x) THEN x[1] < 0 \/ x = y
    ELSE y[1] > 0
RAbs(x) == <<Abs(x[1]), x[2]>>
RFloor(x) == x[1] \div x[2]
RCeil(x) == -((-x[1]) \div x[2])

Range(s) == {s[i] : i \in DOMAIN s}
\* np.min / np.max of an array of finite values
RMinOf(s) == CHOOSE m \in Range(s) : \A x \in Range(s) : RLeq(m, x)
RMaxOf(s) == CHOOSE m \in Range(s) : \A x \in Range(s) : RLeq(x, m)

----------------------------------------------------------------------------
(* simple_signal.py *)

Variants == {"SineSignal", "CosineSignal", "SquareSignal", "SawtoothSignal"}
Freqs == {1, 2, 3}
Rates == {1, 2}
Durations == {Rat(k, m) : k \in 1..MaxDurNum, m \in 1..MaxDurDen}

\* np.arange(stop) for stop > 0 has the integers 0 <= i < stop: floor(stop)
\* of them only when stop is an integer.
ArangeLenFloor(stop) == RFloor(stop)
ArangeLen(stop) == IF RLeq(stop, RInt(0)) THEN 0 ELSE RCeil(stop)

\* np.arange(duration * samp_rate) / samp_rate
SampNums(duration, samp_rate) ==
    [i \in 1..ArangeLen(RMul(duration, RInt(samp_rate))) |-> Rat(i - 1, samp_rate)]

\* The phase freq * t in half turns: np.pi * freq * t = HalfTurns * (pi / 2).
\* Freqs and Rates keep it an integer, where sin and cos are exactly 0, 1, -1.
HalfTurns(freq, t) == RFloor(RMul(RInt(2 * freq), t))
Sin(k) == CASE k % 4 = 0 -> RInt(0) [] k % 4 = 1 -> RInt(1)
            [] k % 4 = 2 -> RInt(0) [] OTHER -> RInt(-1)
Cos(k) == Sin(k + 1)
\* scipy.signal.square(x): 1 while x mod 2pi < pi, else -1
Square(k) == IF k % 4 < 2 THEN RInt(1) ELSE RInt(-1)
\* scipy.signal.sawtooth(x): rises from -1 to 1 over [0, 2pi)
Sawtooth(k) == RSub(Rat(k % 4, 2), RInt(1))

gen_data(variant, freq, samp_nums) ==
    [i \in DOMAIN samp_nums |->
        LET k == HalfTurns(freq, samp_nums[i])
        IN  CASE variant = "SineSignal" -> Sin(k)
              [] variant = "CosineSignal" -> Cos(k)
              [] variant = "SquareSignal" -> Square(k)
              [] variant = "SawtoothSignal" ->
                    RDiv(RAdd(Sawtooth(k), RInt(1)), RInt(2))]

\* Signal.__init__: the object after construction; gen_calls counts gen_data calls
NewSignal(variant, freq, samp_rate, duration) ==
    LET nums == SampNums(duration, samp_rate)
    IN  [variant |-> variant, samp_rate |-> samp_rate, duration |-> duration,
         freq |-> freq, samp_nums |-> nums,
         data |-> gen_data(variant, freq, nums), gen_calls |-> 1]

----------------------------------------------------------------------------
(* Strings *)

Slash == "/"
DotWav == <<".", "w", "a", "v">>

\* str.split("/"): the segments between the separators, empty ones included
RECURSIVE SplitFrom(_, _, _)
SplitFrom(s, i, cur) ==
    IF i > Len(s) THEN <<cur>>
    ELSE IF s[i] = Slash THEN <<cur>> \o SplitFrom(s, i + 1, <<>>)
    ELSE SplitFrom(s, i + 1, Append(cur, s[i]))
Split(s) == SplitFrom(s, 1, <<>>)

\* "/".join(segs)
RECURSIVE Join(_)
Join(segs) ==
    IF Len(segs) = 0 THEN <<>>
    ELSE IF Len(segs) = 1 THEN segs[1]
    ELSE segs[1] \o <<Slash>> \o Join(Tail(segs))

ButLast(s) == SubSeq(s, 1, Len(s) - 1)

\* filename.split("/")[-1]
RawFilename(filename) == Split(filename)[Len(Split(filename))]
\* "/".join(filename.split("/")[:-1])
Folder(filename) == Join(ButLast(Split(filename)))

\* datetime.now().strftime("%y%m%d-%H%M%S"): two digits per field
Digit(n) == CASE n = 0 -> "0" [] n = 1 -> "1" [] n = 2 -> "2" [] n = 3 -> "3"
              [] n = 4 -> "4" [] n = 5 -> "5" [] n = 6 -> "6" [] n = 7 -> "7"
              [] n = 8 -> "8" [] OTHER -> "9"
Pad2(n) == <<Digit((n \div 10) % 10), Digit(n % 10)>>
Strftime(now) ==
    Pad2(now.year) \o Pad2(now.month) \o Pad2(now.day) \o <<"-">>
        \o Pad2(now.hour) \o Pad2(now.minute) \o Pad2(now.second)

\* the readings datetime.now() may give
Clock == {[year |-> 2020, month |-> 3, day |-> 7, hour |-> 9, minute |-> 5,
           second |-> 8]}

\* timestamp = strftime(...) + "-" if auto_timestamp else ""
Timestamp(auto_timestamp, now) ==
    IF auto_timestamp THEN Strftime(now) \o <<"-">> ELSE <<>>

\* f"{folder}/{timestamp}{raw_filename}.wav"
OutPath(folder, timestamp, raw_filename) ==
    folder \o <<Slash>> \o timestamp \o raw_filename \o DotWav

----------------------------------------------------------------------------
(* Filesystem and codec, as write() uses them *)

\* os.path.exists(folder)
PathExists(folder, ds, fs) == folder \in ds \/ folder \in fs

\* the directories os.makedirs(folder) makes sure exist: folder and its parents
Ancestors(folder) ==
    {Join(SubSeq(Split(folder), 1, k)) : k \in 1..Len(Split(folder))} \ {<<>>}

\* os.makedirs(folder) without exist_ok: an existing leaf is FileExistsError
MakedirsFails(folder, ds, fs) == PathExists(folder, ds, fs)

\* the directory wavfile.write must find to open path for writing;
\* <<>> is the filesystem root for "/name.wav"
ParentDir(path) == Join(ButLast(Split(path)))

----------------------------------------------------------------------------
(* wav.py: write() *)

Dtypes == {"uint8", "int16", "int32", "float32", "uint16", "float64"}
IntTypes == {"uint8", "int16", "int32", "uint16"}
FloatTypes == {"float32", "float64"}
Unsigned == {"uint8", "uint16"}
\* the four representations the docstring of write() lists
Supported == {"uint8", "int16", "int32", "float32"}
\* the dtypes wavfile.write accepts among Dtypes (any float or signed
\* integer, and 8-bit unsigned)
CodecAccepts == {"uint8", "int16", "int32", "float32", "float64"}

\* np.iinfo(dtype).max; np.iinfo of a float type raises ValueError
iinfo(dtype) ==
    CASE dtype = "uint8" -> [ok |-> TRUE, max |-> 255]
      [] dtype = "int16" -> [ok |-> TRUE, max |-> 32767]
      [] dtype = "int32" -> [ok |-> TRUE, max |-> 2147483647]
      [] dtype = "uint16" -> [ok |-> TRUE, max |-> 65535]
      [] OTHER -> [ok |-> FALSE, max |-> 0]

\* (np.iinfo(dtype).max if dtype != np.float32 else 1)
MaxMagnitudeByKind(dtype) ==
    IF dtype \notin FloatTypes THEN iinfo(dtype) ELSE [ok |-> TRUE, max |-> 1]
MaxMagnitude(dtype) ==
    IF dtype # "float32" THEN iinfo(dtype) ELSE [ok |-> TRUE, max |-> 1]

\* isinstance(signal, ss.Signal): the argument is the Signal object or an array
IsSignal(signal) == signal.kind = "Signal"

\* data = signal, replaced by signal.data for a Signal
ResolveData(signal, s) == IF IsSignal(signal) THEN s.data ELSE signal.data

\* samp_rate, replaced by signal.samp_rate for a Signal
ResolveRateExplicit(signal, samp_rate, s) == samp_rate
ResolveRate(signal, samp_rate, s) ==
    IF IsSignal(signal) THEN Some(s.samp_rate) ELSE samp_rate

\* if samp_rate is None: raise ValueError
MissingRateNever(samp_rate) == FALSE
MissingRate(samp_rate) == samp_rate = None

\* Lines 63-70.  amplitude = amp_perc * max_magnitude is kept as the
\* coefficient amp_perc of max_magnitude, and so is every element of out_data:
\* the value of out_data[i] is out_data[i] * MaxMagnitude(dtype).max.  (The
\* products themselves exceed the 32-bit integers of TLC.)
\* "data" is the array the local name data is bound to after the step: numpy's
\* - and * / allocate their results, so it is the input array, untouched.
ShiftScale(data, amp_perc) ==
    LET unsigned_data == [i \in DOMAIN data |-> RSub(data[i], RMinOf(data))]
    IN  [i \in DOMAIN data |->
            RDiv(RMul(unsigned_data[i], amp_perc), RMaxOf(unsigned_data))]
DirectScale(data, amp_perc) ==
    [i \in DOMAIN data |-> RDiv(RMul(data[i], amp_perc), RMaxOf(data))]

NormalizeNoShift(data, amp_perc, dtype) ==
    [out_data |-> DirectScale(data, amp_perc), data |-> data]
NormalizeInPlace(data, amp_perc, dtype) ==
    LET shifted == [i \in DOMAIN data |-> RSub(data[i], RMinOf(data))]
    IN  IF dtype = "uint8"
        THEN [out_data |-> ShiftScale(data, amp_perc), data |-> shifted]
        ELSE [out_data |-> DirectScale(data, amp_perc),
              data |-> DirectScale(data, amp_perc)]
Normalize(data, amp_perc, dtype) ==
    IF dtype = "uint8"
    THEN [out_data |-> ShiftScale(data, amp_perc), data |-> data]
    ELSE [out_data |-> DirectScale(data, amp_perc), data |-> data]

\* out_data.astype(dtype), element by element.  c is the coefficient of
\* M = MaxMagnitude(dtype).max.  A float stays as it is; an integer type
\* truncates toward zero.  Casting nan, inf or a value outside the type's range
\* to an integer is undefined in C: ub is the outcome of the build.
InRange(c, dtype, M) ==
    /\ RIsFinite(c)
    /\ LET n == Abs(c[1])
           d == c[2]
       IN  IF c[1] >= 0
           THEN n <= d \/ M <= (d - 1) \div (n - d)
           ELSE IF dtype \in Unsigned
           THEN M <= (d - 1) \div n
           ELSE n <= d \/ M <= (2 * d - 1) \div (n - d)
Trunc(c, M) ==
    LET n == Abs(c[1])
        d == c[2]
    IN  Sgn(c[1]) * (n * (M \div d) + (n * (M % d)) \div d)
iinfo_min(dtype) == IF dtype \in Unsigned THEN 0 ELSE -iinfo(dtype).max - 1
CastUndefined(out_data, dtype) ==
    IF dtype \in IntTypes
       /\ \E i \in DOMAIN out_data : ~InRange(out_data[i], dtype, iinfo(dtype).max)
    THEN {0, iinfo_min(dtype), iinfo(dtype).max}
    ELSE {0}
AsType(out_data, dtype, ub) ==
    [i \in DOMAIN out_data |->
        IF dtype \in FloatTypes THEN out_data[i]
        ELSE IF InRange(out_data[i], dtype, iinfo(dtype).max)
        THEN RInt(Trunc(out_data[i], iinfo(dtype).max))
        ELSE RInt(ub)]

----------------------------------------------------------------------------
(* Inputs *)

Filenames == {<<"a">>, <<"d", "/", "a">>, <<"d", "/", "e", "/", "a">>}
\* two callers, different output paths, some in the same directory
ConcFilenames(p) ==
    IF p = 1 THEN {<<"d", "/", "a">>, <<"a">>}
    ELSE {<<"d", "/", "b">>, <<"d", "/", "e", "/", "b">>}

Arr(s) == [kind |-> "array", data |-> [i \in DOMAIN s |-> RInt(s[i])]]
RawArrays == {Arr(<<-2, 0, 2>>), Arr(<<-2, 1>>), Arr(<<0, 0>>),
              Arr(<<-1, -2>>), Arr(<<1, 3>>)}
TheSignal == [kind |-> "Signal"]
Amps == {Rat(k, AmpDen) : k \in 0..AmpDen}
ExplicitRates == {None, Some(3)}

\* The arguments of the calls made one after the other.  Normalisation
\* (lines 62-70) and path handling (lines 72-81) share no data, so the inputs
\* are three families rather than one product: every array, amplitude and
\* dtype on one path; every filename, rate and timestamp flag on two arrays;
\* and no explicit rate with every filename, array, dtype and timestamp flag.
NormArgs ==
    [filename : {<<"d", "/", "a">>}, signal : RawArrays \cup {TheSignal},
     samp_rate : {Some(3)}, amp_perc : Amps, dtype : Dtypes,
     auto_timestamp : {FALSE}]
PathArgs ==
    [filename : Filenames, signal : {Arr(<<-2, 0, 2>>), TheSignal},
     samp_rate : ExplicitRates, amp_perc : {RInt(1)},
     dtype : {"int16", "uint16"}, auto_timestamp : BOOLEAN]
RateArgs ==
    [filename : Filenames, signal : RawArrays \cup {TheSignal},
     samp_rate : {None}, amp_perc : {RInt(1)}, dtype : Dtypes,
     auto_timestamp : BOOLEAN]
ArgsSeq == NormArgs \cup PathArgs \cup RateArgs

ArgsConc(p) ==
    [filename : ConcFilenames(p), signal : {Arr(<<-2, 0, 2>>)},
     samp_rate : {Some(3)}, amp_perc : Amps, dtype : {"int16"},
     auto_timestamp : BOOLEAN]

\* the Signal objects the writer specifications start with
InitSignals == {NewSignal(v, 1, 2, Rat(3, 2)) : v \in Variants}

NoArgs == <<>>
NoLocals == <<>>
NoSnap == <<>>

----------------------------------------------------------------------------
(* Actions *)

\* Signal(freq, samp_rate, duration) of one of the four subclasses
Construct ==
    /\ sig.variant = "none"
    /\ \E v \in Variants, f \in Freqs, r \in Rates, d \in Durations :
          sig' = NewSignal(v, f, r, d)
    /\ UNCHANGED <<dirs, files, pc, args, loc, err, mkdirs, codec, snap, ncalls>>

\* write(...) is entered and runs lines 51-74: everything before the first
\* filesystem access
Call(p, a) ==
    /\ pc[p] = "idle"
    /\ ncalls' = ncalls + 1
    /\ args' = [args EXCEPT ![p] = a]
    /\ snap' = [snap EXCEPT ![p] = [dirs |-> dirs, files |-> files]]
    /\ mkdirs' = [mkdirs EXCEPT ![p] = <<>>]
    /\ codec' = [codec EXCEPT ![p] = <<>>]
    /\ LET data == ResolveData(a.signal, sig)
           samp_rate == ResolveRate(a.signal, a.samp_rate, sig)
           mm == MaxMagnitude(a.dtype)
           n == Normalize(data, a.amp_perc, a.dtype)
       IN  IF MissingRate(samp_rate)
           THEN /\ err' = [err EXCEPT ![p] = "MissingSampleRate"]
                /\ pc' = [pc EXCEPT ![p] = "done"]
                /\ loc' = [loc EXCEPT ![p] = NoLocals]
                /\ sig' = sig
           ELSE IF ~mm.ok
           THEN /\ err' = [err EXCEPT ![p] = "UnsupportedRepresentation"]
                /\ pc' = [pc EXCEPT ![p] = "done"]
                /\ loc' = [loc EXCEPT ![p] = NoLocals]
                /\ sig' = sig
           ELSE /\ err' = [err EXCEPT ![p] = "none"]
                /\ pc' = [pc EXCEPT ![p] = "exists"]
                /\ loc' = [loc EXCEPT ![p] =
                              [samp_rate |-> samp_rate,
                               out_data |-> n.out_data,
                               raw_filename |-> RawFilename(a.filename),
                               folder |-> Folder(a.filename)]]
                \* data is signal.data itself when signal is a Signal
                /\ sig' = IF IsSignal(a.signal)
                          THEN [sig EXCEPT !.data = n.data] ELSE sig
    /\ UNCHANGED <<dirs, files>>

\* line 75: if folder != "" and not os.path.exists(folder)
NeedsMakedirsAlways(folder, ds, fs) == folder # <<>>
NeedsMakedirs(folder, ds, fs) == folder # <<>> /\ ~PathExists(folder, ds, fs)

Exists(p) ==
    /\ pc[p] = "exists"
    /\ pc' = [pc EXCEPT ![p] =
                 IF NeedsMakedirs(loc[p].folder, dirs, files)
                 THEN "makedirs" ELSE "write"]
    /\ UNCHANGED <<sig, dirs, files, args, loc, err, mkdirs, codec, snap, ncalls>>

\* line 76: os.makedirs(folder)
Makedirs(p) ==
    /\ pc[p] = "makedirs"
    /\ mkdirs' = [mkdirs EXCEPT ![p] = Append(@, loc[p].folder)]
    /\ IF MakedirsFails(loc[p].folder, dirs, files)
       THEN /\ err' = [err EXCEPT ![p] = "FileExistsError"]
            /\ pc' = [pc EXCEPT ![p] = "done"]
            /\ dirs' = dirs
       ELSE /\ dirs' = dirs \cup Ancestors(loc[p].folder)
            /\ pc' = [pc EXCEPT ![p] = "write"]
            /\ err' = err
    /\ UNCHANGED <<sig, files, args, loc, codec, snap, ncalls>>

\* lines 78-81: the timestamp, the path, the cast and wavfile.write.
\* wavfile.write opens the path for writing (its directory must exist) and
\* then rejects a dtype it does not support or a rate that is no number;
\* files holds the files written completely.
WavWrite(p) ==
    /\ pc[p] = "write"
    /\ \E now \in Clock, ub \in CastUndefined(loc[p].out_data, args[p].dtype) :
          LET path == OutPath(loc[p].folder,
                              Timestamp(args[p].auto_timestamp, now),
                              loc[p].raw_filename)
              buf == AsType(loc[p].out_data, args[p].dtype, ub)
              parent == ParentDir(path)
          IN  /\ codec' = [codec EXCEPT ![p] =
                              Append(@, [path |-> path,
                                         rate |-> loc[p].samp_rate,
                                         data |-> buf,
                                         dtype |-> args[p].dtype])]
              /\ IF parent # <<>> /\ parent \notin dirs
                 THEN /\ err' = [err EXCEPT ![p] = "FileNotFoundError"]
                      /\ files' = files
                 ELSE IF args[p].dtype \notin CodecAccepts
                         \/ loc[p].samp_rate = None
                 THEN /\ err' = [err EXCEPT ![p] = "CodecError"]
                      /\ files' = files
                 ELSE /\ err' = err
                      /\ files' = files \cup {path}
    /\ pc' = [pc EXCEPT ![p] = "done"]
    /\ UNCHANGED <<sig, dirs, args, loc, mkdirs, snap, ncalls>>

\* write() returns or raises to its caller; the frame is gone
Return(p) ==
    /\ pc[p] = "done"
    /\ pc' = [pc EXCEPT ![p] = "idle"]
    /\ args' = [args EXCEPT ![p] = NoArgs]
    /\ loc' = [loc EXCEPT ![p] = NoLocals]
    /\ err' = [err EXCEPT ![p] = "none"]
    /\ mkdirs' = [mkdirs EXCEPT ![p] = <<>>]
    /\ codec' = [codec EXCEPT ![p] = <<>>]
    /\ snap' = [snap EXCEPT ![p] = NoSnap]
    /\ UNCHANGED <<sig, dirs, files, ncalls>>

----------------------------------------------------------------------------
(* Specifications *)

InitCommon ==
    /\ dirs = {}
    /\ files = {}
    /\ pc = [p \in Procs |-> "idle"]
    /\ args = [p \in Procs |-> NoArgs]
    /\ loc = [p \in Procs |-> NoLocals]
    /\ err = [p \in Procs |-> "none"]
    /\ mkdirs = [p \in Procs |-> <<>>]
    /\ codec = [p \in Procs |-> <<>>]
    /\ snap = [p \in Procs |-> NoSnap]
    /\ ncalls = 0

\* Signal construction
InitGen == sig = NoSignal /\ InitCommon
NextGen == Construct
SpecGen == InitGen /\ [][NextGen]_vars

\* write() calls one after the other, on a Signal built before
Init == sig \in InitSignals /\ InitCommon
OthersIdle(p) == \A q \in Procs \ {p} : pc[q] = "idle"
Next ==
    \E p \in Procs :
        \/ ncalls < MaxCalls /\ OthersIdle(p) /\ \E a \in ArgsSeq : Call(p, a)
        \/ Exists(p)
        \/ Makedirs(p)
        \/ WavWrite(p)
        \/ Return(p)
Spec == Init /\ [][Next]_vars

\* two callers inside write() at the same time, with different output paths
NextConc ==
    \E p \in Procs :
        \/ ncalls < MaxConcCalls /\ \E a \in ArgsConc(p) : Call(p, a)
        \/ Exists(p)
        \/ Makedirs(p)
        \/ WavWrite(p)
        \/ Return(p)
SpecConc == Init /\ [][NextConc]_vars

----------------------------------------------------------------------------
(* Properties *)

\* p's call got past the sample-rate check and the range lookup: it has locals
HasLocals(p) ==
    \/ pc[p] \in {"exists", "makedirs", "write"}
    \/ pc[p] = "done" /\ err[p] \notin {"MissingSampleRate", "UnsupportedRepresentation"}
RawNoRate(p) ==
    pc[p] # "idle" /\ ~IsSignal(args[p].signal) /\ args[p].samp_rate = None
FsUntouched(p) == dirs = snap[p].dirs /\ files = snap[p].files

\* C1: a call with a raw array and samp_rate None ends with the
\* missing-sample-rate error, and has then made no os.makedirs call, no codec
\* call and no change to the filesystem, whatever the filename, dtype and
\* auto_timestamp.
ThmC1 ==
    \A p \in Procs :
        RawNoRate(p) =>
            /\ pc[p] = "done"
            /\ err[p] = "MissingSampleRate"
            /\ mkdirs[p] = <<>>
            /\ codec[p] = <<>>
            /\ FsUntouched(p)
\* such a call, to a filename whose directory does not exist
WitC1 ==
    \E p \in Procs :
        /\ RawNoRate(p)
        /\ pc[p] = "done"
        /\ args[p].filename = <<"d", "/", "e", "/", "a">>
        /\ Folder(args[p].filename) \notin dirs
        /\ args[p].auto_timestamp

\* C2 as claimed: the number of samples and of sample indices is
\* floor(duration * samp_rate).
CexC2 ==
    sig.variant # "none" =>
        /\ Len(sig.data) = RFloor(RMul(sig.duration, RInt(sig.samp_rate)))
        /\ Len(sig.samp_nums) = RFloor(RMul(sig.duration, RInt(sig.samp_rate)))
\* C2 amended: the number n of samples and of sample indices is the least
\* integer n >= duration * samp_rate (the ceiling; the floor only when the
\* product is an integer): the indices are the times (i-1)/samp_rate that
\* lie before duration, all of them.
ThmC2 ==
    sig.variant # "none" =>
        LET n == Len(sig.data)
            num == sig.duration[1] * sig.samp_rate
            den == sig.duration[2]
        IN  /\ Len(sig.samp_nums) = n
            /\ (n - 1) * den < num
            /\ num <= n * den
            /\ (num % den = 0 => n = num \div den)
            /\ \A i \in 1..n :
                  /\ sig.samp_nums[i] = Rat(i - 1, sig.samp_rate)
                  /\ ~RLeq(sig.duration, sig.samp_nums[i])
\* a Signal of 1.5 s at 1 sample/s has 2 samples
WitC2 ==
    /\ sig.variant = "SquareSignal"
    /\ sig.duration = <<3, 2>>
    /\ sig.samp_rate = 1
    /\ Len(sig.data) = 2

\* the values of out_data for an 8-bit target: coefficient * 255
Values255(out_data) == [i \in DOMAIN out_data |-> RMul(out_data[i], RInt(255))]
Uint8Case(p) ==
    /\ HasLocals(p)
    /\ args[p].dtype = "uint8"
    /\ Cardinality(Range(ResolveData(args[p].signal, sig))) >= 2

\* C3: in the uint8 branch, for an input with at least two distinct values,
\* the scaled data before the cast has minimum 0 and maximum amp_perc * 255
\* and every value lies between them; [-2, 0, 2] with amp_perc 1 gives
\* 0, 127.5, 255.
ThmC3 ==
    \A p \in Procs :
        Uint8Case(p) =>
            LET v == Values255(loc[p].out_data)
                top == RMul(args[p].amp_perc, RInt(255))
            IN  /\ RMinOf(v) = RInt(0)
                /\ RMaxOf(v) = top
                /\ \A i \in DOMAIN v : RLeq(RInt(0), v[i]) /\ RLeq(v[i], top)
                /\ (args[p].signal = Arr(<<-2, 0, 2>>) /\ args[p].amp_perc = RInt(1)
                      => v = <<RInt(0), Rat(255, 2), RInt(255)>>)
\* [-2, 0, 2] at amp_perc 1 has reached the codec as 0, 127, 255
WitC3 ==
    \E p \in Procs :
        /\ Uint8Case(p)
        /\ pc[p] = "done"
        /\ args[p].signal = Arr(<<-2, 0, 2>>)
        /\ args[p].amp_perc = RInt(1)
        /\ Len(codec[p]) = 1
        /\ codec[p][1].data = <<RInt(0), RInt(127), RInt(255)>>

\* the divisor of the normalisation: max(data - min(data)) or max(data)
Divisor(data, dtype) ==
    IF dtype = "uint8" THEN RSub(RMaxOf(data), RMinOf(data)) ELSE RMaxOf(data)

\* C4 as claimed: for the four supported dtypes and a non-zero divisor, every
\* scaled value handed to the cast has magnitude at most
\* amp_perc * max_magnitude (as coefficients of max_magnitude: |c| <= amp_perc).
CexC4 ==
    \A p \in Procs :
        (/\ HasLocals(p)
         /\ args[p].dtype \in Supported
         /\ Divisor(ResolveData(args[p].signal, sig), args[p].dtype) # RInt(0))
        => \A i \in DOMAIN loc[p].out_data :
              RLeq(RAbs(loc[p].out_data[i]), args[p].amp_perc)

\* C5: the rate handed to the codec is the Signal's samp_rate and the buffer
\* is the cast of the normalised Signal data, whatever the explicit samp_rate;
\* for a raw array the rate is the explicit samp_rate and the buffer comes
\* from the array.
ThmC5 ==
    \A p \in Procs :
        \A i \in DOMAIN codec[p] :
            LET c == codec[p][i]
                a == args[p]
                src == IF IsSignal(a.signal) THEN sig.data ELSE a.signal.data
                out == Normalize(src, a.amp_perc, a.dtype).out_data
            IN  /\ c.rate = (IF IsSignal(a.signal) THEN Some(sig.samp_rate)
                             ELSE a.samp_rate)
                /\ c.rate # None
                /\ \E ub \in CastUndefined(out, a.dtype) :
                      c.data = AsType(out, a.dtype, ub)
\* a Signal written with no explicit rate, and one written with another rate
WitC5 ==
    \E p \in Procs :
        /\ pc[p] = "done"
        /\ IsSignal(args[p].signal)
        /\ args[p].samp_rate = Some(3)
        /\ Len(codec[p]) = 1
        /\ codec[p][1].rate = Some(2)

\* C6 as claimed: with auto_timestamp false the path handed to the codec is
\* the filename followed by ".wav", for every filename.
CexC6 ==
    \A p \in Procs :
        \A i \in DOMAIN codec[p] :
            ~args[p].auto_timestamp =>
                codec[p][i].path = args[p].filename \o DotWav

\* C7 as claimed: a call that ends in an error leaves the filesystem as it
\* was before the call.
CexC7 ==
    \A p \in Procs :
        (pc[p] = "done" /\ err[p] # "none") => FsUntouched(p)
\* C7 amended: a call with no resolved rate ends in the missing-sample-rate
\* error and a call with a float dtype other than float32 in the
\* unsupported-representation error of the range lookup, and such a call has
\* touched nothing: no os.makedirs call, no codec call, filesystem as before.
\* A call that ends in a codec error is not rolled back: the directories it
\* created are still there.
ThmC7 ==
    \A p \in Procs :
        pc[p] = "done" =>
            /\ (args[p].dtype \in FloatTypes \ {"float32"}
                    => err[p] \in {"MissingSampleRate", "UnsupportedRepresentation"})
            /\ (err[p] \in {"MissingSampleRate", "UnsupportedRepresentation"}
                    => mkdirs[p] = <<>> /\ codec[p] = <<>> /\ FsUntouched(p))
            /\ (err[p] = "CodecError"
                    => /\ dirs = snap[p].dirs \cup Ancestors(loc[p].folder)
                       /\ (mkdirs[p] # <<>> => dirs # snap[p].dirs))
\* a call that failed in the range lookup, to a directory that does not exist
WitC7 ==
    \E p \in Procs :
        /\ pc[p] = "done"
        /\ err[p] = "UnsupportedRepresentation"
        /\ args[p].samp_rate # None
        /\ Folder(args[p].filename) # <<>>
        /\ Folder(args[p].filename) \notin dirs

\* C8 as claimed: two concurrent calls with different output paths both
\* complete without error, under every interleaving.
CexC8 ==
    \A p \in Procs : pc[p] = "done" => err[p] = "none"

\* C9: for a call with a resolved rate (past the range lookup) and a
\* non-empty folder: os.makedirs is called, once, exactly when the folder did
\* not exist at the call, and before the codec; the folder and its parents
\* exist when the codec is called; no directory error is raised; the codec is
\* called exactly once, with a path inside the folder.
ThmC9 ==
    \A p \in Procs :
        (HasLocals(p) /\ loc[p].folder # <<>>) =>
            LET f == loc[p].folder
                existed == f \in snap[p].dirs
            IN  /\ (pc[p] \in {"exists", "makedirs"} => codec[p] = <<>> /\ mkdirs[p] = <<>>)
                /\ (pc[p] = "makedirs" => ~existed)
                /\ (pc[p] \in {"write", "done"} =>
                      /\ Ancestors(f) \subseteq dirs
                      /\ mkdirs[p] = (IF existed THEN <<>> ELSE <<f>>)
                      /\ (existed => dirs = snap[p].dirs))
                /\ (pc[p] = "write" => codec[p] = <<>>)
                /\ (pc[p] = "done" =>
                      /\ err[p] \in {"none", "CodecError"}
                      /\ Len(codec[p]) = 1
                      /\ ParentDir(codec[p][1].path) = f)
\* the folder d/e did not exist, was created with its parent d, and the codec
\* was then called
WitC9 ==
    \E p \in Procs :
        /\ pc[p] = "done"
        /\ HasLocals(p)
        /\ loc[p].folder = <<"d", "/", "e">>
        /\ snap[p].dirs = {}
        /\ dirs = {<<"d">>, <<"d", "/", "e">>}
        /\ mkdirs[p] = << <<"d", "/", "e">> >>
        /\ Len(codec[p]) = 1
\* the folder existed when the call started: no os.makedirs call, no error
WitC9Existing ==
    \E p \in Procs :
        /\ pc[p] = "done"
        /\ HasLocals(p)
        /\ loc[p].folder = <<"d">>
        /\ <<"d">> \in snap[p].dirs
        /\ mkdirs[p] = <<>>
        /\ err[p] = "none"

\* C10: the Signal is what its constructor made of its three parameters, by
\* one gen_data call, in every state: no write() call changes its data,
\* samp_nums, samp_rate, freq or duration.
ThmC10 ==
    /\ sig \in InitSignals
    /\ sig = NewSignal(sig.variant, sig.freq, sig.samp_rate, sig.duration)
    /\ sig.gen_calls = 1
\* the second of two calls has written the Signal as uint8
WitC10 ==
    \E p \in Procs :
        /\ pc[p] = "done"
        /\ ncalls = 2
        /\ IsSignal(args[p].signal)
        /\ args[p].dtype = "uint8"
        /\ Len(codec[p]) = 1

====
